---- MODULE Spec2Model ----
(***************************************************************************)
(* State-machine model of the Xenopoulos dialectical simulation engines:   *)
(*   - XenopoulosGeneticHistoricalSystem      (src/xenopoulos_system.py)   *)
(*   - XenopoulosSystem   (InteractiveQuantumDenoisingAndXenopoulos.py)    *)
(*   - XenopoulosCodeAnalyzer                        (ai_model_check.py)   *)
(*   - XenopoulosFinancialAnalyzer  (financial_analysis.py and             *)
(*                                   code_final-healthy_version.py)        *)
(*                                                                         *)
(* Reals are fixed-point integers in thousandths (0.85 is 850).  The       *)
(* transcendental functions (tanh, sin, x**0.7, x**0.8, x**1.2) are        *)
(* tabulated and interpolated linearly.  numpy's process-wide generator    *)
(* is the variable rng: a seedable linear congruential generator whose     *)
(* state is read by rand()/randn() and advanced by every draw.             *)
(*                                                                         *)
(* prog names the program that runs: "GH" and "GHW" use                    *)
(* XenopoulosGeneticHistoricalSystem (see GHPrograms), "XS" uses           *)
(* XenopoulosSystem, "CA" uses XenopoulosCodeAnalyzer and "FA" uses        *)
(* XenopoulosFinancialAnalyzer (SpecPlainProduct).  The other programs     *)
(* apply single methods to drawn arguments: "FN" the stage classifiers     *)
(* (SpecClassify), "EV" the paradox detection (SpecDetect), "DG" the       *)
(* diagnoses of a history (SpecDiagnose), "RI" the risk index (SpecRisk),  *)
(* "PS" the scoring of one step (SpecScore) and "AL" the audit log         *)
(* (SpecAudit).  gh holds the objects of the first class, cur the          *)
(* simulation call in progress, xs and ca the object of the second and     *)
(* third class, fn the arguments and results of a method call or the       *)
(* object of the fourth class, env the number of draws made by other code  *)
(* of the process.                                                         *)
(***************************************************************************)
EXTENDS Integers, Sequences, FiniteSets, TLC

VARIABLES prog, rng, env, gh, cur, xs, ca, fn

vars == <<prog, rng, env, gh, cur, xs, ca, fn>>

(***************************************************************************)
(* Bounds of the model.                                                    *)
(***************************************************************************)
\* seeds 1..MaxSeed can be passed to the constructor (besides seed=None)
MaxSeed == 1
\* draws other code of the process makes from the global generator
MaxEnvDraws == 1
\* a second object is created beside, and a simulation is repeated on, runs
\* of at most this horizon
MaxPairHorizon == 12
\* calls of simulate_enhanced_historical_process made on one object
MaxSimulations == 2
\* number of simulate_step calls made on a XenopoulosSystem
MaxXSSteps == 3
\* number of _analyze_dialectically calls made on a XenopoulosCodeAnalyzer
MaxCASteps == 5
MaxAuditCalls == 102
MaxMarketSteps == 6

(***************************************************************************)
(* Fixed-point arithmetic.                                                 *)
(***************************************************************************)
Abs(x) == IF x < 0 THEN -x ELSE x

Min(a, b) == IF a < b THEN a ELSE b

Max(a, b) == IF a > b THEN a ELSE b

\* product of two thousandths, truncated toward zero
Mul(a, b) == IF (a < 0) = (b < 0) THEN (Abs(a) * Abs(b)) \div 1000
             ELSE -((Abs(a) * Abs(b)) \div 1000)

\* np.clip on finite values
Clip(x, lo, hi) == IF x < lo THEN lo ELSE IF x > hi THEN hi ELSE x

RECURSIVE SumSeq(_)
SumSeq(s) ==
    IF s = <<>> THEN 0
    ELSE IF Len(s) = 1 THEN s[1]
    ELSE SumSeq(SubSeq(s, 1, Len(s) \div 2))
         + SumSeq(SubSeq(s, (Len(s) \div 2) + 1, Len(s)))

\* Python's s[-k:] : the last k entries, or all of s when it is shorter
LastK(s, k) == IF Len(s) <= k THEN s ELSE SubSeq(s, Len(s) - k + 1, Len(s))

\* integer quotient rounded toward zero
Quot(a, n) == IF a < 0 THEN -((-a) \div n) ELSE a \div n

\* np.mean of a non-empty list of finite values
Mean(s) == Quot(SumSeq(s), Len(s))

AbsSeq(s) == [i \in 1..Len(s) |-> Abs(s[i])]

\* linear interpolation in a table sampled every `step` thousandths from 0
Interp(tab, step, x) ==
    LET i == x \div step
    IN  IF i + 1 >= Len(tab) THEN tab[Len(tab)]
        ELSE tab[i + 1] + ((tab[i + 2] - tab[i + 1]) * (x - i * step)) \div step

TanhTab == <<0, 245, 462, 635, 762, 848, 905, 941, 964, 978, 987, 992, 995>>

\* np.tanh
Tanh(x) == IF x < 0 THEN -Interp(TanhTab, 250, -x) ELSE Interp(TanhTab, 250, x)

SinTab == <<0, 247, 479, 682, 841, 949, 997, 984, 909, 778, 598, 382, 141,
            -108, -351, -572, -757, -895, -978, -999, -959, -859, -706, -508,
            -279, -33, 215>>

\* np.sin of a non-negative angle
Sin(x) == Interp(SinTab, 250, x % 6283)

Pow07Tab == <<0, 379, 616, 818, 1000, 1169, 1328, 1480, 1625, 1764>>

Pow08Tab == <<0, 330, 574, 794, 1000, 1195, 1383, 1565, 1741, 1913>>

Pow12Tab == <<0, 63, 145, 236, 333, 435, 542, 652, 765, 881, 1000>>

\* x ** 0.7, x ** 0.8 for 0 <= x <= 2.25 and x ** 1.2 for 0 <= x <= 1
Pow07(x) == Interp(Pow07Tab, 250, x)

Pow08(x) == Interp(Pow08Tab, 250, x)

Pow12(x) == Interp(Pow12Tab, 100, x)

(***************************************************************************)
(* numpy's global random generator.                                        *)
(***************************************************************************)
\* number of generator states
RngMod == 64

\* np.random.seed(seed)
SeedState(seed) == (seed * 23 + 9) % RngMod

\* the generator's state after one draw
Advance(s) == (s * 5 + 3) % RngMod

\* np.random.rand(): uniform in [0, 1)
Rand(s) == (s * 1000) \div RngMod

RandnTab == <<-1863, -1318, -1010, -776, -579, -402, -237, -78,
              78, 237, 402, 579, 776, 1010, 1318, 1863>>

\* np.random.randn(): standard normal
Randn(s) == RandnTab[((s * 16) \div RngMod) + 1]

\* IEEE not-a-number and infinities of a numpy float
NaN == -999999

PosInf == 999999

NegInf == -999998

IsNaN(x) == x = NaN

(***************************************************************************)
(* XenopoulosGeneticHistoricalSystem: pure operators.  `run` is the        *)
(* object (self); s is the generator state the call starts from.           *)
(***************************************************************************)
\* _enhanced_dialectical_negation: the value returned and the generator after
GHNegation(run, state, s) ==
    LET preservation_factor == 800 + Mul(200, Rand(s))
        s1 == Advance(s)
        historical_effect ==
            IF Len(run.history_A) > 0
            THEN Quot(Tanh(Mean(LastK(run.history_A, 10))), 10)
            ELSE 0
        feedback == Len(run.history_paradox_scores) > 0
                    /\ Mean(LastK(run.history_paradox_scores, 5)) > 700
        paradox_feedback == IF feedback THEN Mul(50, Randn(s1)) ELSE 0
        s2 == IF feedback THEN Advance(s1) ELSE s1
        enhanced_negation ==
            Mul(Mul(-state, preservation_factor),
                1000 + historical_effect + paradox_feedback)
        stochastic_component == Quot(run.volatility * Randn(s2), 10000)
    IN  [value |-> enhanced_negation + stochastic_component, rng |-> Advance(s2)]

\* _dialectical_conjunction_intensity, given the randn() it draws
GHIntensity(run, state, anti_state, z) ==
    LET raw_intensity == Abs(Mul(state, anti_state))
        complexity_factor ==
            IF Abs(state) > 800 /\ Abs(anti_state) > 800
            THEN 1500 + Mul(run.volatility, z)
            ELSE 1000 + Mul(run.volatility, z)
    IN  Clip(Mul(raw_intensity, complexity_factor), 0, 1000)

\* _calculate_paradox_score with a tension-paradox signal of 1 in place of 0.5
GHParadoxScoreFullIndicator(run, state, anti_state, tension) ==
    LET extremity_score == Min(Abs(state), Abs(anti_state))
        symmetry_score == 1000 - Abs(Abs(state) - Abs(anti_state))
        tension_paradox ==
            IF extremity_score > 700 /\ tension < 300 THEN 1000 ELSE 0
        persistence_score ==
            IF Len(run.history_A) > 10
               /\ Mean(AbsSeq(LastK(run.history_A, 10))) > 700
               /\ Mean(AbsSeq(LastK(run.history_anti_A, 10))) > 700
            THEN 300 ELSE 0
        paradox_score ==
            Quot(extremity_score * 4 + symmetry_score * 3
                 + tension_paradox * 2 + persistence_score, 10)
    IN  Clip(paradox_score, 0, 1000)

\* _calculate_paradox_score
GHParadoxScore(run, state, anti_state, tension) ==
    LET extremity_score == Min(Abs(state), Abs(anti_state))
        symmetry_score == 1000 - Abs(Abs(state) - Abs(anti_state))
        tension_paradox ==
            IF extremity_score > 700 /\ tension < 300 THEN 500 ELSE 0
        persistence_score ==
            IF Len(run.history_A) > 10
               /\ Mean(AbsSeq(LastK(run.history_A, 10))) > 700
               /\ Mean(AbsSeq(LastK(run.history_anti_A, 10))) > 700
            THEN 300 ELSE 0
        paradox_score ==
            Quot(extremity_score * 4 + symmetry_score * 3
                 + tension_paradox * 2 + persistence_score, 10)
    IN  Clip(paradox_score, 0, 1000)

\* np.std(s) > 1.5 for a non-empty list of stage indices
StdAbove15(s) ==
    LET n == Len(s)
        sq == SumSeq([i \in 1..n |-> s[i] * s[i]])
        sm == SumSeq(s)
    IN  4 * (n * sq - sm * sm) > 9 * n * n

\* the tension bands of _enhanced_stage_classification with the limits 0.30,
\* 0.45 and 0.60 of _classify_stage
GHTensionBandNarrow(run, tension_score) ==
    IF tension_score < 150 THEN 0
    ELSE IF tension_score < 300 THEN 1
    ELSE IF tension_score < 450 THEN 2
    ELSE IF tension_score < 600 THEN 3
    ELSE IF tension_score < run.aufhebung_threshold THEN 4
    ELSE 5

\* the tension bands at the end of _enhanced_stage_classification
GHTensionBand(run, tension_score) ==
    IF tension_score < 150 THEN 0
    ELSE IF tension_score < 350 THEN 1
    ELSE IF tension_score < 550 THEN 2
    ELSE IF tension_score < 750 THEN 3
    ELSE IF tension_score < run.aufhebung_threshold THEN 4
    ELSE 5

\* _enhanced_stage_classification with the false-stability test moved in front
\* of the paradox test
GHClassifyFalseStabilityFirst(run, tension_score, current_A, current_anti_A, paradox_score) ==
    IF tension_score < 300
       /\ (Abs(current_A) > 700 \/ Abs(current_anti_A) > 700)
    THEN 7
    ELSE IF Abs(current_A) > 800 /\ Abs(current_anti_A) > 800 /\ tension_score < 400
    THEN 6
    ELSE GHTensionBand(run, tension_score)

\* _enhanced_stage_classification with the meta-transcendence test moved in
\* front of the permanent-dialectics test
GHClassifyMetaTranscendenceFirst(run, tension_score, current_A, current_anti_A, paradox_score) ==
    IF Abs(current_A) > 800 /\ Abs(current_anti_A) > 800 /\ tension_score < 400
    THEN 6
    ELSE IF tension_score < 300
            /\ (Abs(current_A) > 700 \/ Abs(current_anti_A) > 700)
    THEN 7
    ELSE IF paradox_score > 800 /\ tension_score > 600
    THEN 9
    ELSE IF Len(run.history_stages) > 20
            /\ Cardinality({run.history_stages[i] :
                   i \in (Len(run.history_stages) - 19)..Len(run.history_stages)}) >= 4
            /\ StdAbove15(LastK(run.history_stages, 20))
    THEN 8
    ELSE GHTensionBand(run, tension_score)

\* _enhanced_stage_classification: the stage index
GHClassify(run, tension_score, current_A, current_anti_A, paradox_score) ==
    IF Abs(current_A) > 800 /\ Abs(current_anti_A) > 800 /\ tension_score < 400
    THEN 6
    ELSE IF tension_score < 300
            /\ (Abs(current_A) > 700 \/ Abs(current_anti_A) > 700)
    THEN 7
    ELSE IF Len(run.history_stages) > 20
            /\ Cardinality({run.history_stages[i] :
                   i \in (Len(run.history_stages) - 19)..Len(run.history_stages)}) >= 4
            /\ StdAbove15(LastK(run.history_stages, 20))
    THEN 8
    ELSE IF paradox_score > 800 /\ tension_score > 600
    THEN 9
    ELSE GHTensionBand(run, tension_score)

\* float division x / d of a non-negative x, with numpy's inf and nan
FloatDiv(x, d) ==
    IF d = 0 THEN (IF x = 0 THEN NaN ELSE PosInf)
    ELSE IF d < 0 THEN -Quot(x * 1000, -d)
    ELSE Quot(x * 1000, d)

\* float product x * f of a possibly infinite or nan x with a finite f
FloatMul(x, f) ==
    IF IsNaN(x) THEN NaN
    ELSE IF x = PosInf \/ x = NegInf
         THEN (IF f = 0 THEN NaN
               ELSE IF (f > 0) = (x = PosInf) THEN PosInf ELSE NegInf)
    ELSE Mul(x, f)

\* np.clip on a numpy float: nan stays nan
FloatClip(x, lo, hi) ==
    IF IsNaN(x) THEN NaN
    ELSE IF x = PosInf THEN hi
    ELSE IF x = NegInf THEN lo
    ELSE Clip(x, lo, hi)

\* _calculate_enhanced_XEPTQLRI, given the randn() it draws
GHRiskIndex(run, tension, historical_trend, current_A, current_anti_A, paradox_score, z) ==
    LET trend_factor ==
            IF historical_trend > 100 THEN 1500
            ELSE IF historical_trend > 300 THEN 2000
            ELSE 1000
        paradox_factor ==
            IF paradox_score > 700
            THEN (IF tension < 300 THEN 1800 ELSE 2000)
            ELSE 1000
        extremity_multiplier ==
            IF Abs(current_A) > 800 /\ Abs(current_anti_A) > 800
            THEN 1500 ELSE 1000
        numerator ==
            Mul(Mul(Mul(tension, trend_factor), paradox_factor),
                extremity_multiplier)
        base == FloatDiv(numerator, run.aufhebung_threshold)
        stochastic_factor == 1000 + Quot(run.volatility * 3 * z, 10000)
        jittered == FloatMul(base, stochastic_factor)
        recent == LastK(run.history_A, 50)
        extreme == Cardinality({i \in 1..Len(recent) : Abs(recent[i]) > 800})
        boosted ==
            IF Len(run.history_A) > 50 /\ extreme * 10 > 7 * Len(recent)
            THEN FloatMul(jittered, 1300) ELSE jittered
    IN  FloatClip(boosted, 0, 3000)

\* np.polyfit(range(10), ys, 1)[0]: the least-squares slope over ten points
Slope10(ys) == Quot(SumSeq([i \in 1..10 |-> (2 * i - 11) * ys[i]]), 165)

\* the phase of a step: the first boundary the step is below
GHPhase(run, step) ==
    LET h == run.horizon
        phase_boundaries ==
            <<(h * 20) \div 100, (h * 40) \div 100, (h * 60) \div 100,
              (h * 75) \div 100, (h * 85) \div 100, (h * 95) \div 100, h>>
        below == {p \in 1..7 : step < phase_boundaries[p]}
    IN  IF below = {} THEN 0
        ELSE (CHOOSE p \in below : \A q \in below : p <= q) - 1

PhasePressure == <<20, 50, 100, 150, 200, 250, 300>>

PhaseVolatility == <<10, 30, 50, 80, 120, 150, 200>>

PatternAmplitude == <<10, 20, 30, 40, 50, 60, 30>>

PatternFrequency == <<50, 80, 120, 180, 250, 350, 100>>

\* the risk-event entry with the severity cut moved from 1.0 to 1.5
GHRiskEventLateCritical(step, risk, tension, stage, phase, paradox_score) ==
    [step |-> step, XEPTQLRI |-> risk, tension |-> tension, stage |-> stage,
     risk |-> IF risk > 1500 THEN "CRITICAL" ELSE "HIGH",
     phase |-> phase, paradox_score |-> paradox_score]

\* the risk-event entry of a step, appended when the index is above 0.7
GHRiskEvent(step, risk, tension, stage, phase, paradox_score) ==
    [step |-> step, XEPTQLRI |-> risk, tension |-> tension, stage |-> stage,
     risk |-> IF risk > 1000 THEN "CRITICAL" ELSE "HIGH",
     phase |-> phase, paradox_score |-> paradox_score]

\* _detect_paradox_events with the META_PARADOX test at 0.8, the limit of the
\* meta-transcendence stage
GHParadoxEventsMetaAtStageLimit(step, current_A, current_anti_A, paradox_score, stage_idx) ==
    LET ev(type) == [step |-> step, type |-> type, A_value |-> current_A,
                     anti_A_value |-> current_anti_A,
                     paradox_score |-> paradox_score, stage |-> stage_idx]
    IN  (IF Abs(current_A) > 850 /\ Abs(current_anti_A) > 850
         THEN <<ev("SIMULTANEOUS_EXTREMITY")>> ELSE <<>>)
        \o (IF stage_idx = 7 THEN <<ev("FALSE_STABILITY")>> ELSE <<>>)
        \o (IF paradox_score > 800 THEN <<ev("META_PARADOX")>> ELSE <<>>)

\* _detect_paradox_events with the three tests chained by elif
GHParadoxEventsExclusive(step, current_A, current_anti_A, paradox_score, stage_idx) ==
    LET ev(type) == [step |-> step, type |-> type, A_value |-> current_A,
                     anti_A_value |-> current_anti_A,
                     paradox_score |-> paradox_score, stage |-> stage_idx]
    IN  IF Abs(current_A) > 850 /\ Abs(current_anti_A) > 850
        THEN <<ev("SIMULTANEOUS_EXTREMITY")>>
        ELSE IF stage_idx = 7 THEN <<ev("FALSE_STABILITY")>>
        ELSE IF paradox_score > 900 THEN <<ev("META_PARADOX")>>
        ELSE <<>>

\* _detect_paradox_events: the events a step appends, in order
GHParadoxEvents(step, current_A, current_anti_A, paradox_score, stage_idx) ==
    LET ev(type) == [step |-> step, type |-> type, A_value |-> current_A,
                     anti_A_value |-> current_anti_A,
                     paradox_score |-> paradox_score, stage |-> stage_idx]
    IN  (IF Abs(current_A) > 850 /\ Abs(current_anti_A) > 850
         THEN <<ev("SIMULTANEOUS_EXTREMITY")>> ELSE <<>>)
        \o (IF stage_idx = 7 THEN <<ev("FALSE_STABILITY")>> ELSE <<>>)
        \o (IF paradox_score > 900 THEN <<ev("META_PARADOX")>> ELSE <<>>)

\* the end of one iteration with a risk log that keeps the latest event only
GHRecordedLatestRiskOnly(run, step, current_phase, current_A, current_anti_A, current_tension, paradox_score, enhanced_XEPTQLRI, stage_idx) ==
    [run EXCEPT
       !.paradox_events = @ \o GHParadoxEvents(step, current_A, current_anti_A,
                                               paradox_score, stage_idx),
       !.history_A = Append(@, current_A),
       !.history_anti_A = Append(@, current_anti_A),
       !.history_tension = Append(@, current_tension),
       !.history_XEPTQLRI = Append(@, enhanced_XEPTQLRI),
       !.history_stages = Append(@, stage_idx),
       !.history_paradox_scores = Append(@, paradox_score),
       !.phase_history = Append(@, current_phase),
       !.risk_events =
           IF ~IsNaN(enhanced_XEPTQLRI) /\ enhanced_XEPTQLRI > 700
           THEN <<GHRiskEvent(step, enhanced_XEPTQLRI, current_tension,
                              stage_idx, current_phase, paradox_score)>>
           ELSE @]

\* the end of one iteration of the loop (source lines 373-399): paradox
\* events, the history lists, the risk event
GHRecorded(run, step, current_phase, current_A, current_anti_A, current_tension, paradox_score, enhanced_XEPTQLRI, stage_idx) ==
    [run EXCEPT
       !.paradox_events = @ \o GHParadoxEvents(step, current_A, current_anti_A,
                                               paradox_score, stage_idx),
       !.history_A = Append(@, current_A),
       !.history_anti_A = Append(@, current_anti_A),
       !.history_tension = Append(@, current_tension),
       !.history_XEPTQLRI = Append(@, enhanced_XEPTQLRI),
       !.history_stages = Append(@, stage_idx),
       !.history_paradox_scores = Append(@, paradox_score),
       !.phase_history = Append(@, current_phase),
       !.risk_events =
           IF ~IsNaN(enhanced_XEPTQLRI) /\ enhanced_XEPTQLRI > 700
           THEN Append(@, GHRiskEvent(step, enhanced_XEPTQLRI, current_tension,
                                      stage_idx, current_phase, paradox_score))
           ELSE @]

\* source lines 354-371: trend, risk index and stage of the step, computed
\* from the updated A; s is the generator state _calculate_enhanced_XEPTQLRI
\* draws from
GHScored(run, step, current_phase, current_A, current_anti_A, current_tension, paradox_score, s) ==
    [run |-> GHRecorded(run, step, current_phase, current_A, current_anti_A,
                 current_tension, paradox_score,
                 GHRiskIndex(run, current_tension,
                     IF step > 10 /\ Len(run.history_tension) >= 10
                     THEN Slope10(LastK(run.history_tension, 10)) ELSE 0,
                     current_A, current_anti_A, paradox_score, Randn(s)),
                 GHClassify(run, current_tension, current_A, current_anti_A,
                            paradox_score)),
     A |-> current_A, rng |-> Advance(s)]

\* source lines 360-361: the paradox score of the updated A
GHUpdated(run, step, current_phase, current_A, current_anti_A, current_tension, s) ==
    GHScored(run, step, current_phase, current_A, current_anti_A, current_tension,
             GHParadoxScore(run, current_A, current_anti_A, current_tension), s)

\* source lines 332-352: pressure, pattern and noise update A, which is clamped;
\* s is the generator state the systemic noise draws from
GHEvolved(run, step, current_phase, current_A, current_anti_A, current_tension, s) ==
    GHUpdated(run, step, current_phase,
              Clip(current_A
                   + Mul(current_tension, PhasePressure[current_phase + 1])
                   + Mul(PatternAmplitude[current_phase + 1],
                         Sin(step * PatternFrequency[current_phase + 1]))
                   + Mul(PhaseVolatility[current_phase + 1], Randn(s)),
                   -1200, 1200),
              current_anti_A, current_tension, Advance(s))

\* source lines 329-330: the tension of the old A and the new negation
GHTensed(run, step, current_phase, current_A, current_anti_A, s) ==
    GHEvolved(run, step, current_phase, current_A, current_anti_A,
              GHIntensity(run, current_A, current_anti_A, Randn(s)), Advance(s))

\* source lines 325-327: the negation of the old A, scaled by the
\* historical factor 1 + 0.003 * step
GHNegated(run, step, current_phase, current_A, neg) ==
    GHTensed(run, step, current_phase, current_A,
             Mul(neg.value, 1000 + 3 * step), neg.rng)

\* one iteration of the loop that negates self.A in place of the local
\* current_A
GHIterationOfInitialA(run, step, current_A, s) ==
    GHNegated(run, step, GHPhase(run, step), current_A,
              GHNegation(run, run.A, s))

\* one iteration of the loop of simulate_enhanced_historical_process:
\* the object, the local current_A and the generator after it
GHIteration(run, step, current_A, s) ==
    GHNegated(run, step, GHPhase(run, step), current_A,
              GHNegation(run, current_A, s))

\* the summary lines after the loop: history_stages[-1] raises IndexError on
\* an empty history
GHFinished(run) ==
    [run EXCEPT !.simulations = @ + 1,
                !.error = IF run.history_stages = <<>> THEN "IndexError"
                          ELSE "none"]

\* np.std(s) > 2.0 for a non-empty list of stage indices
StdAbove2(s) ==
    LET n == Len(s)
        sq == SumSeq([i \in 1..n |-> s[i] * s[i]])
        sm == SumSeq(s)
    IN  n * sq - sm * sm > 4 * n * n

\* np.mean of a list of numpy floats: nan as soon as one entry is nan
FloatMean(s) ==
    IF \E i \in 1..Len(s) : IsNaN(s[i]) THEN NaN ELSE Mean(s)

\* _calculate_stability_deception_index without the cap min(1.0, ...)
GHDeceptionIndexUncapped(run) ==
    IF Len(run.history_XEPTQLRI) < 50 THEN 0
    ELSE
    LET recent_risk == FloatMean(LastK(run.history_XEPTQLRI, 50))
        recent_A_abs == Mean(AbsSeq(LastK(run.history_A, 50)))
        recent_anti_abs == Mean(AbsSeq(LastK(run.history_anti_A, 50)))
    IN  IF ~IsNaN(recent_risk) /\ recent_risk < 500
           /\ (recent_A_abs > 700 \/ recent_anti_abs > 700)
        THEN Quot(recent_A_abs + recent_anti_abs, 2)
        ELSE 0

\* _calculate_stability_deception_index
GHDeceptionIndex(run) ==
    IF Len(run.history_XEPTQLRI) < 50 THEN 0
    ELSE
    LET recent_risk == FloatMean(LastK(run.history_XEPTQLRI, 50))
        recent_A_abs == Mean(AbsSeq(LastK(run.history_A, 50)))
        recent_anti_abs == Mean(AbsSeq(LastK(run.history_anti_A, 50)))
    IN  IF ~IsNaN(recent_risk) /\ recent_risk < 500
        THEN (IF recent_A_abs > 700 \/ recent_anti_abs > 700
              THEN Min(1000, Quot(recent_A_abs + recent_anti_abs, 2))
              ELSE 0)
        ELSE 0

\* _determine_true_system_state with the mean risk index taken over the whole
\* history
GHTrueSystemStateWholeHistory(run) ==
    IF Len(run.history_A) < 100 THEN "INSUFFICIENT_DATA"
    ELSE
    LET recent_A == LastK(run.history_A, 100)
        recent_anti == LastK(run.history_anti_A, 100)
        recent_paradox == LastK(run.history_paradox_scores, 100)
        recent_stages == LastK(run.history_stages, 100)
        at_extremes == Cardinality({i \in 1..100 : Abs(recent_A[i]) > 800})
        simultaneous ==
            Cardinality({i \in 1..100 :
                Abs(recent_A[i]) > 800 /\ Abs(recent_anti[i]) > 800})
        persistent == Cardinality({i \in 1..100 : recent_paradox[i] > 700})
        mean_risk == FloatMean(run.history_XEPTQLRI)
    IN  IF persistent > 60
        THEN (IF at_extremes > 70 THEN "PERMANENT_PARADOXICAL_TRANSCENDENCE"
              ELSE "INTERMITTENT_PARADOXICAL_STATE")
        ELSE IF simultaneous > 50 THEN "SIMULTANEOUS_EXTREMITY_REGIME"
        ELSE IF at_extremes > 80 THEN "PERMANENT_TRANSCENDENCE"
        ELSE IF StdAbove2(recent_stages) THEN "CHAOTIC_DIALECTICS"
        ELSE IF ~IsNaN(mean_risk) /\ mean_risk < 300
        THEN (IF at_extremes > 30 THEN "FALSE_STABILITY_REGIME"
              ELSE "TRUE_STABILITY")
        ELSE "DYNAMIC_EQUILIBRIUM"

\* _determine_true_system_state
GHTrueSystemState(run) ==
    IF Len(run.history_A) < 100 THEN "INSUFFICIENT_DATA"
    ELSE
    LET recent_A == LastK(run.history_A, 100)
        recent_anti == LastK(run.history_anti_A, 100)
        recent_paradox == LastK(run.history_paradox_scores, 100)
        recent_stages == LastK(run.history_stages, 100)
        at_extremes == Cardinality({i \in 1..100 : Abs(recent_A[i]) > 800})
        simultaneous ==
            Cardinality({i \in 1..100 :
                Abs(recent_A[i]) > 800 /\ Abs(recent_anti[i]) > 800})
        persistent == Cardinality({i \in 1..100 : recent_paradox[i] > 700})
        mean_risk == FloatMean(LastK(run.history_XEPTQLRI, 100))
    IN  IF persistent > 60
        THEN (IF at_extremes > 70 THEN "PERMANENT_PARADOXICAL_TRANSCENDENCE"
              ELSE "INTERMITTENT_PARADOXICAL_STATE")
        ELSE IF simultaneous > 50 THEN "SIMULTANEOUS_EXTREMITY_REGIME"
        ELSE IF at_extremes > 80 THEN "PERMANENT_TRANSCENDENCE"
        ELSE IF StdAbove2(recent_stages) THEN "CHAOTIC_DIALECTICS"
        ELSE IF ~IsNaN(mean_risk) /\ mean_risk < 300
        THEN (IF at_extremes > 30 THEN "FALSE_STABILITY_REGIME"
              ELSE "TRUE_STABILITY")
        ELSE "DYNAMIC_EQUILIBRIUM"

\* the value of report before any report was requested
NoReport == [kind |-> "none", requested_at |-> 0]

\* np.sum(array == idx): the number of entries of a list equal to idx
CountOf(list, idx) == Len(SelectSeq(list, LAMBDA x : x = idx))

\* the keys of self.stages and of self.phases
GHStageIndexes == 0..9

GHPhaseIndexes == 0..6

\* report['distribution']['risk_levels']: a comparison with nan is False, so
\* that a nan entry is counted in no band
GHRiskLevels(XEPTQLRI_array) ==
    [low |-> Len(SelectSeq(XEPTQLRI_array, LAMBDA x : ~IsNaN(x) /\ x < 500)),
     medium |-> Len(SelectSeq(XEPTQLRI_array,
                              LAMBDA x : ~IsNaN(x) /\ x >= 500 /\ x < 1000)),
     high |-> Len(SelectSeq(XEPTQLRI_array,
                            LAMBDA x : ~IsNaN(x) /\ x >= 1000 /\ x < 2000)),
     extreme |-> Len(SelectSeq(XEPTQLRI_array, LAMBDA x : ~IsNaN(x) /\ x >= 2000))]

\* report['distribution']
GHDistribution(run) ==
    [stages |-> [idx \in GHStageIndexes |-> CountOf(run.history_stages, idx)],
     phases |-> [idx \in GHPhaseIndexes |-> CountOf(run.phase_history, idx)],
     risk_levels |-> GHRiskLevels(run.history_XEPTQLRI)]

\* the report enhanced_analysis_report builds from a non-empty history;
\* requested_at is the number of steps recorded when the report was asked for
GHReportOf(run, requested_at) ==
    [kind |-> "report",
     requested_at |-> requested_at,
     total_steps |-> Len(run.history_A),
     distribution |-> GHDistribution(run),
     true_system_state |-> GHTrueSystemState(run)]

(***************************************************************************)
(* XenopoulosGeneticHistoricalSystem: the objects and their operations.    *)
(***************************************************************************)
Runs == {1, 2}

\* seed=None
NoSeed == 0

Seeds == 0..MaxSeed

\* the constructor arguments (initial_state_A, historical_horizon,
\* aufhebung_threshold, volatility_factor) the runs are created with
GHConfigs ==
    { [initial_state_A |-> 200, horizon |-> 12, threshold |-> 900, volatility |-> 10],
      [initial_state_A |-> 850, horizon |-> 104, threshold |-> 800, volatility |-> 20],
      [initial_state_A |-> 950, horizon |-> 30, threshold |-> 650, volatility |-> 1000],
      [initial_state_A |-> 0, horizon |-> 3, threshold |-> 0, volatility |-> -30],
      [initial_state_A |-> 700, horizon |-> 0, threshold |-> 650, volatility |-> 50] }

\* the arguments an object was created with
GHConfigOf(run) ==
    [initial_state_A |-> run.initial_state_A, horizon |-> run.horizon,
     threshold |-> run.aufhebung_threshold, volatility |-> run.volatility]

\* system_name of the constructor's defaults
DefaultSystemName == "Default System"

\* self.system_id: the digest md5(...)[:8] of system_name, initial_state_A and
\* historical_horizon, written as the text it is the digest of
GHSystemId(system_name, initial_state_A, historical_horizon) ==
    <<system_name, initial_state_A, historical_horizon>>

\* a slot in which no object was created yet
GHNoRun ==
    [made |-> FALSE, initial_state_A |-> 0, A |-> 0, anti_A |-> 0, horizon |-> 0,
     aufhebung_threshold |-> 0, volatility |-> 0, seed |-> NoSeed, rng0 |-> 0,
     history_A |-> <<>>, history_anti_A |-> <<>>, history_tension |-> <<>>,
     history_XEPTQLRI |-> <<>>, history_stages |-> <<>>,
     history_paradox_scores |-> <<>>, phase_history |-> <<>>,
     risk_events |-> <<>>, paradox_events |-> <<>>,
     system_name |-> "", system_id |-> <<>>,
     simulations |-> 0, error |-> "none", report |-> NoReport]

\* __init__ as written calls _enhanced_dialectical_negation (source line 82)
\* before it creates the history lists (lines 85-95): the call draws rand()
\* (line 152) and raises AttributeError on self.history_A (line 155), for
\* every argument list, so that no object is created.  The program "GHW" is
\* the class as written; the program "GH" is the class with the history
\* lists created before the initial negation, the only order in which an
\* object exists and the other methods can run.
GHPrograms == {"GH", "GHW"}

\* __init__: the object and the generator after it (rng0 records the generator
\* state the constructor leaves behind)
GHInit(c, seed, s, lists_first) ==
    LET seeded == IF seed # NoSeed THEN SeedState(seed) ELSE s
        A == Clip(c.initial_state_A, 0, 1000)
        blank == [GHNoRun EXCEPT !.initial_state_A = c.initial_state_A,
                                 !.A = A, !.horizon = c.horizon,
                                 !.aufhebung_threshold = c.threshold,
                                 !.volatility = c.volatility, !.seed = seed,
                                 !.system_name = DefaultSystemName,
                                 !.system_id = GHSystemId(DefaultSystemName,
                                                          c.initial_state_A,
                                                          c.horizon)]
        neg == GHNegation(blank, A, seeded)
    IN  IF lists_first
        THEN [run |-> [blank EXCEPT !.made = TRUE, !.anti_A = neg.value,
                                    !.rng0 = neg.rng],
              rng |-> neg.rng]
        ELSE [run |-> [GHNoRun EXCEPT !.error = "AttributeError"],
              rng |-> Advance(seeded)]

\* cur is the call of simulate_enhanced_historical_process in progress: its
\* object, its loop variable step, its local current_A, and whether
\* enhanced_analysis_report made the call.  run = 0: no call in progress.
Idle == [run |-> 0, step |-> 0, A |-> 0, report |-> FALSE]

\* XenopoulosGeneticHistoricalSystem(...); a second object is created beside
\* a short run only, with the arguments of the first and a seed of its own
GHConstruct(r, c, seed) ==
    /\ prog \in GHPrograms
    /\ cur = Idle
    /\ ~gh[r].made
    /\ \A q \in Runs : q < r => /\ gh[q].made
                                /\ GHConfigOf(gh[q]) = c
                                /\ c.horizon <= MaxPairHorizon
    /\ \E made \in {GHInit(c, seed, rng, prog = "GH")} :
           /\ gh' = [gh EXCEPT ![r] = made.run]
           /\ rng' = made.rng
    /\ UNCHANGED <<prog, env, cur, xs, ca, fn>>

\* another object exists beside object r
Paired(r) == \E q \in Runs \ {r} : gh[q].made

\* system.simulate_enhanced_historical_process() is called; an object that
\* has another beside it, or a long horizon, is simulated once
GHSimulate(r) ==
    /\ prog = "GH"
    /\ cur = Idle
    /\ gh[r].made
    /\ gh[r].simulations < MaxSimulations
    /\ Paired(r) => gh[r].simulations = 0
    /\ gh[r].simulations > 0 => gh[r].horizon <= MaxPairHorizon
    /\ cur' = [run |-> r, step |-> 0, A |-> gh[r].A, report |-> FALSE]
    /\ UNCHANGED <<prog, rng, env, gh, xs, ca, fn>>

\* system.enhanced_analysis_report() is called: it simulates first when
\* nothing is recorded, and builds the report otherwise
GHReport(r) ==
    /\ prog = "GH"
    /\ cur = Idle
    /\ gh[r].made
    /\ IF gh[r].history_XEPTQLRI = <<>>
       THEN /\ gh[r].simulations < MaxSimulations
            /\ Paired(r) => gh[r].simulations = 0
            /\ gh[r].simulations > 0 => gh[r].horizon <= MaxPairHorizon
            /\ cur' = [run |-> r, step |-> 0, A |-> gh[r].A, report |-> TRUE]
            /\ gh' = gh
       ELSE /\ gh' = [gh EXCEPT ![r].report = GHReportOf(gh[r], Len(gh[r].history_A)),
                                ![r].error = "none"]
            /\ cur' = cur
    /\ UNCHANGED <<prog, rng, env, xs, ca, fn>>

\* reset_system without its last line: phase_history is kept
GHResetOfKeepPhases(run) ==
    [run EXCEPT !.history_A = <<>>, !.history_anti_A = <<>>,
                !.history_tension = <<>>, !.history_XEPTQLRI = <<>>,
                !.history_stages = <<>>, !.history_paradox_scores = <<>>,
                !.risk_events = <<>>, !.paradox_events = <<>>]

\* reset_system without its lines for the event logs
GHResetOfKeepEvents(run) ==
    [run EXCEPT !.history_A = <<>>, !.history_anti_A = <<>>,
                !.history_tension = <<>>, !.history_XEPTQLRI = <<>>,
                !.history_stages = <<>>, !.history_paradox_scores = <<>>,
                !.phase_history = <<>>]

\* reset_system: the history lists and both event logs of the object after it
GHResetOf(run) ==
    [run EXCEPT !.history_A = <<>>, !.history_anti_A = <<>>,
                !.history_tension = <<>>, !.history_XEPTQLRI = <<>>,
                !.history_stages = <<>>, !.history_paradox_scores = <<>>,
                !.risk_events = <<>>, !.paradox_events = <<>>,
                !.phase_history = <<>>]

\* get_system_summary: the text returned
GHSystemSummary(run) ==
    IF run.history_XEPTQLRI = <<>>
    THEN [text |-> "System not yet simulated"]
    ELSE [text |-> "System", Steps |-> Len(run.history_A),
          True_State |-> GHTrueSystemState(run),
          Paradox_Events |-> Len(run.paradox_events),
          Risk_Events |-> Len(run.risk_events)]

\* system.reset_system() is called
GHReset(r) ==
    /\ prog = "GH"
    /\ cur = Idle
    /\ gh[r].made
    /\ gh' = [gh EXCEPT ![r] = GHResetOf(gh[r])]
    /\ UNCHANGED <<prog, rng, env, cur, xs, ca, fn>>

\* one iteration of `for step in range(self.horizon)`
GHLoopIteration ==
    /\ cur.run # 0
    /\ cur.step < gh[cur.run].horizon
    /\ \E it \in {GHIteration(gh[cur.run], cur.step, cur.A, rng)} :
           /\ gh' = [gh EXCEPT ![cur.run] = it.run]
           /\ cur' = [cur EXCEPT !.step = @ + 1, !.A = it.A]
           /\ rng' = it.rng
    /\ UNCHANGED <<prog, env, xs, ca, fn>>

\* the loop is over: the summary lines of the simulation, and the report
\* when enhanced_analysis_report made the call and no exception was raised
GHLoopExit ==
    /\ cur.run # 0
    /\ cur.step >= gh[cur.run].horizon
    /\ \E done \in {GHFinished(gh[cur.run])} :
           gh' = [gh EXCEPT ![cur.run] =
                    IF cur.report /\ done.error = "none"
                    THEN [done EXCEPT !.report = GHReportOf(done, 0)]
                    ELSE done]
    /\ cur' = Idle
    /\ UNCHANGED <<prog, rng, env, xs, ca, fn>>

\* any other draw the process makes from numpy's global generator, before a
\* simulation has ended
EnvDraw ==
    /\ cur = Idle
    /\ env < MaxEnvDraws
    /\ \A r \in Runs : gh[r].simulations = 0
    /\ env' = env + 1
    /\ rng' = Advance(rng)
    /\ UNCHANGED <<prog, gh, cur, xs, ca, fn>>

(***************************************************************************)
(* XenopoulosSystem: pure operators.  `sys` is the object (self).          *)
(***************************************************************************)
\* _dialectical_negation: the value returned and the generator after
XSNegation(sys, state, s) ==
    LET memory_effect ==
            IF Len(sys.history_A) > 0
            THEN Quot(Tanh(2 * Mean(LastK(sys.history_A, 10))), 5)
            ELSE 0
        preservation == 700 + Mul(300, Rand(s))
        s1 == Advance(s)
        historical_weight == 1000 + Mul(300, Rand(s1))
        s2 == Advance(s1)
        negation == Mul(Mul(Mul(-state, preservation), historical_weight),
                        1000 + memory_effect)
        noise_level == Quot(1000 + Abs(state), 20)
        stochastic == Mul(noise_level, Randn(s2))
    IN  [value |-> Clip(negation + stochastic, -1500, 1500), rng |-> Advance(s2)]

\* _calculate_tension without the scaling of extreme values: the plain product
XSTensionUnamplified(state, anti_state) ==
    Clip(Abs(Mul(state, anti_state)), 0, 1000)

\* _calculate_tension
XSTension(state, anti_state) ==
    LET raw_intensity == Abs(Mul(state, anti_state))
        intensity ==
            IF Abs(state) > 800 /\ Abs(anti_state) > 800
            THEN Mul(Pow07(raw_intensity), 1500)
            ELSE IF Abs(state) > 600 \/ Abs(anti_state) > 600
            THEN Mul(Pow08(raw_intensity), 1200)
            ELSE raw_intensity
    IN  Clip(intensity, 0, 1000)

\* np.polyfit(range(5), ys, 1)[0]: the least-squares slope over five points
Slope5(ys) == Quot(SumSeq([i \in 1..5 |-> (i - 3) * ys[i]]), 10)

\* _calculate_XEPTQLRI, given the rand() it draws
XSRiskIndex(sys, tension, current_A, current_anti_A, u) ==
    LET base_risk == Pow12(tension)
        trend_factor ==
            IF Len(sys.history_tension) >= 5
            THEN 1000 + Abs(Slope5(LastK(sys.history_tension, 5))) * 15
            ELSE 1000
        paradox_factor ==
            IF Abs(current_A) > 800 /\ Abs(current_anti_A) > 800
            THEN (IF tension < 350 THEN 2800 ELSE 2000)
            ELSE IF Abs(current_A) > 900 \/ Abs(current_anti_A) > 900
            THEN 1500 ELSE 1000
        asymmetry == Abs(Abs(current_A) - Abs(current_anti_A))
        asymmetry_factor == 1000 + Quot(1000 - asymmetry, 2)
        numerator ==
            Mul(Mul(Mul(base_risk, trend_factor), paradox_factor),
                asymmetry_factor)
        XEPTQLRI == FloatDiv(numerator, sys.aufhebung_threshold)
        final_XEPTQLRI == FloatMul(XEPTQLRI, 900 + Mul(200, u))
    IN  FloatClip(final_XEPTQLRI, 0, 3500)

\* np.std(s) > 1.8 for a non-empty list of stage indices
StdAbove18(s) ==
    LET n == Len(s)
        sq == SumSeq([i \in 1..n |-> s[i] * s[i]])
        sm == SumSeq(s)
    IN  25 * (n * sq - sm * sm) > 81 * n * n

\* the tension bands at the end of _classify_stage
XSTensionBand(sys, tension) ==
    IF tension < 150 THEN 0
    ELSE IF tension < 300 THEN 1
    ELSE IF tension < 450 THEN 2
    ELSE IF tension < 600 THEN 3
    ELSE IF tension < sys.aufhebung_threshold THEN 4
    ELSE 5

\* _classify_stage with the permanent-dialectics test moved in front of the
\* false-stability test
XSClassifyHistoryFirst(sys, tension, current_A, current_anti_A) ==
    IF Abs(current_A) > 850 /\ Abs(current_anti_A) > 850 /\ tension < 400
    THEN 6
    ELSE IF Len(sys.history_stages) > 20
            /\ StdAbove18(LastK(sys.history_stages, 20))
            /\ SumSeq(LastK(sys.history_stages, 20)) > 3 * 20
    THEN 8
    ELSE IF tension < 250 /\ (Abs(current_A) > 750 \/ Abs(current_anti_A) > 750)
    THEN 7
    ELSE XSTensionBand(sys, tension)

\* _classify_stage: the stage index
XSClassify(sys, tension, current_A, current_anti_A) ==
    IF Abs(current_A) > 850 /\ Abs(current_anti_A) > 850 /\ tension < 400
    THEN 6
    ELSE IF tension < 250 /\ (Abs(current_A) > 750 \/ Abs(current_anti_A) > 750)
    THEN 7
    ELSE IF Len(sys.history_stages) > 20
            /\ StdAbove18(LastK(sys.history_stages, 20))
            /\ SumSeq(LastK(sys.history_stages, 20)) > 3 * 20
    THEN 8
    ELSE XSTensionBand(sys, tension)

\* source lines 191-230 of simulate_step: the history lists, the events and
\* the returned dictionary
XSRecorded(sys, A, current_anti_A, current_tension, current_XEPTQLRI, stage_idx) ==
    [sys EXCEPT
       !.A = A,
       !.history_A = Append(@, A),
       !.history_anti_A = Append(@, current_anti_A),
       !.history_tension = Append(@, current_tension),
       !.history_XEPTQLRI = Append(@, current_XEPTQLRI),
       !.history_stages = Append(@, stage_idx),
       !.risk_events =
           IF ~IsNaN(current_XEPTQLRI) /\ current_XEPTQLRI > 800
           THEN Append(@, [step |-> Len(sys.history_A),
                           XEPTQLRI |-> current_XEPTQLRI,
                           stage |-> stage_idx, A |-> A,
                           anti_A |-> current_anti_A,
                           tension |-> current_tension])
           ELSE @,
       !.paradox_events =
           IF stage_idx = 6
           THEN Append(@, [step |-> Len(sys.history_A),
                           type |-> "PARADOXICAL_TRANSCENDENCE", A |-> A,
                           anti_A |-> current_anti_A,
                           tension |-> current_tension])
           ELSE @,
       !.returned = [A |-> A, anti_A |-> current_anti_A,
                     tension |-> current_tension,
                     XEPTQLRI |-> current_XEPTQLRI, stage_idx |-> stage_idx]]

\* source lines 183-189: risk index and stage; s is the generator state
\* _calculate_XEPTQLRI draws from
XSScored(sys, A, current_anti_A, current_tension, s) ==
    [sys |-> XSRecorded(sys, A, current_anti_A, current_tension,
                 XSRiskIndex(sys, current_tension, A, current_anti_A, Rand(s)),
                 XSClassify(sys, current_tension, A, current_anti_A)),
     rng |-> Advance(s)]

\* source lines 177-181: negation and tension of the new A
XSNegated(sys, A, neg) ==
    XSScored(sys, A, neg.value, XSTension(A, neg.value), neg.rng)

\* the step computed from the state the object already had, ignoring the input
XSNotOverridden(sys, A, s) == XSNegated(sys, sys.A, XSNegation(sys, sys.A, s))

\* source line 175: the state is overridden by the clipped input
XSOverridden(sys, A, s) == XSNegated(sys, A, XSNegation(sys, A, s))

\* simulate_step: the object after the call and the generator after it
XSStepped(sys, external_A_input, s) ==
    XSOverridden(sys, Clip(external_A_input, -1500, 1500), s)

\* get_detailed_report
XSReportOf(sys) ==
    IF sys.history_XEPTQLRI = <<>> THEN [kind |-> "no data", requested_at |-> 0]
    ELSE [kind |-> "report", requested_at |-> Len(sys.history_A),
          total_steps |-> Len(sys.history_A),
          stage_counts |-> [idx \in GHStageIndexes |->
                                CountOf(sys.history_stages, idx)]]

(***************************************************************************)
(* XenopoulosSystem: the object and its operations.                        *)
(***************************************************************************)
\* the constructor arguments (initial_state_A, aufhebung_threshold)
XSConfigs ==
    { [initial_state_A |-> 300, threshold |-> 850],
      [initial_state_A |-> 2000, threshold |-> 0] }

\* the values passed to simulate_step
ExternalInputs == {0, 500, 900, -1600}

XSNoSystem ==
    [made |-> FALSE, A |-> 0, aufhebung_threshold |-> 0,
     history_A |-> <<>>, history_anti_A |-> <<>>, history_tension |-> <<>>,
     history_XEPTQLRI |-> <<>>, history_stages |-> <<>>,
     risk_events |-> <<>>, paradox_events |-> <<>>,
     returned |-> [A |-> 0, anti_A |-> 0, tension |-> 0, XEPTQLRI |-> 0,
                   stage_idx |-> 0],
     external_A_input |-> 0, report |-> NoReport]

\* XenopoulosSystem(...)
XSConstruct(c) ==
    /\ prog = "XS"
    /\ ~xs.made
    /\ xs' = [XSNoSystem EXCEPT !.made = TRUE,
                                !.A = Clip(c.initial_state_A, -1500, 1500),
                                !.aufhebung_threshold = c.threshold]
    /\ UNCHANGED <<prog, rng, env, gh, cur, ca, fn>>

\* system.simulate_step(external_A_input); the field external_A_input keeps
\* the argument of the latest call
XSSimulateStep(x) ==
    /\ prog = "XS"
    /\ xs.made
    /\ Len(xs.history_A) < MaxXSSteps
    /\ \E done \in {XSStepped(xs, x, rng)} :
           /\ xs' = [done.sys EXCEPT !.external_A_input = x]
           /\ rng' = done.rng
    /\ UNCHANGED <<prog, env, gh, cur, ca, fn>>

\* system.get_detailed_report()
XSReport ==
    /\ prog = "XS"
    /\ xs.made
    /\ xs' = [xs EXCEPT !.report = XSReportOf(xs)]
    /\ UNCHANGED <<prog, rng, env, gh, cur, ca, fn>>

(***************************************************************************)
(* XenopoulosCodeAnalyzer.                                                 *)
(***************************************************************************)
\* the results of calculate_general_type handed to _analyze_dialectically
CAResults == {200, 550, 1000}

\* _analyze_dialectically: the entry appended to history
CAAnalysis(result, step) ==
    LET A == result
        not_A == Mul(-result, 850)
        tension == Abs(Mul(A, not_A))
        simultaneous_extremity == Abs(A) > 800 /\ Abs(not_A) > 800
        low_tension == tension < 300
    IN  [step |-> step, A |-> A, not_A |-> not_A, tension |-> tension,
         is_paradoxical |-> simultaneous_extremity /\ low_tension,
         result |-> result]

\* analyzer._analyze_dialectically(result, params, step)
CAAnalyze(result) ==
    /\ prog = "CA"
    /\ Len(ca.history) < MaxCASteps
    /\ \E analysis \in {CAAnalysis(result, Len(ca.history))} :
           ca' = [ca EXCEPT
                    !.history = Append(@, analysis),
                    !.paradox_events =
                        IF analysis.is_paradoxical THEN Append(@, analysis) ELSE @]
    /\ UNCHANGED <<prog, rng, env, gh, cur, xs, fn>>

\* generate_report: the report, or the exception it raises.  With no history
\* len(paradox_events) / len(history) divides by zero; with 2 to 4 entries
\* calculate_XEPTQLRI returns a numpy array whose truth value is ambiguous.
CAReportOf(a) ==
    IF Len(a.history) = 0
    THEN [kind |-> "ZeroDivisionError", requested_at |-> 0]
    ELSE IF Len(a.history) < 5 /\ Len(a.history) > 1
    THEN [kind |-> "ValueError", requested_at |-> Len(a.history)]
    ELSE [kind |-> "report", requested_at |-> Len(a.history),
          total_simulations |-> Len(a.history),
          paradox_count |-> Len(a.paradox_events)]

\* analyzer.generate_report()
CAReport ==
    /\ prog = "CA"
    /\ ca' = [ca EXCEPT !.report = CAReportOf(ca)]
    /\ UNCHANGED <<prog, rng, env, gh, cur, xs, fn>>

(***************************************************************************)
(* The three programs.  Each is a process of its own: prog names the one   *)
(* that runs.                                                              *)
(***************************************************************************)
\* fn before a classifier is applied to drawn inputs
NoCall ==
    [applied |-> FALSE, tension |-> 0, A |-> 0, anti_A |-> 0,
     paradox_score |-> 0, history_stages |-> <<>>, aufhebung_threshold |-> 0,
     gh_stage |-> 0, xs_stage |-> 0]

Init ==
    /\ prog \in GHPrograms \cup {"XS", "CA"}
    /\ rng = 0
    /\ env = 0
    /\ gh = [r \in Runs |-> GHNoRun]
    /\ cur = Idle
    /\ xs = XSNoSystem
    /\ ca = [history |-> <<>>, paradox_events |-> <<>>, report |-> NoReport]
    /\ fn = NoCall

Next ==
    \/ \E r \in Runs, c \in GHConfigs, seed \in Seeds : GHConstruct(r, c, seed)
    \/ \E r \in Runs : GHSimulate(r)
    \/ \E r \in Runs : GHReport(r)
    \/ \E r \in Runs : GHReset(r)
    \/ GHLoopIteration
    \/ GHLoopExit
    \/ \E c \in XSConfigs : XSConstruct(c)
    \/ \E x \in ExternalInputs : XSSimulateStep(x)
    \/ XSReport
    \/ \E result \in CAResults : CAAnalyze(result)
    \/ CAReport
    \/ EnvDraw

Spec == Init /\ [][Next]_vars

(***************************************************************************)
(* The stage classifiers as pure functions: the arguments and the stage    *)
(* history they read are drawn from bounded sets, and one action applies   *)
(* _enhanced_stage_classification and _classify_stage to them.             *)
(***************************************************************************)
TensionInputs ==
    {0, 149, 150, 249, 250, 299, 300, 349, 350, 399, 400, 449, 450, 549, 550,
     599, 600, 610, 649, 650, 749, 750, 849, 850, 1000}

PoleInputs == {0, 700, 701, 750, 751, 800, 801, 850, 851, -851, 1200}

ParadoxScoreInputs == {0, 800, 801}

\* no stage recorded yet; 21 steady stages; 21 recorded stages of four kinds
\* with standard deviation above 1.8 and mean above 3, and the last 20 of
\* them alone; of four kinds with standard deviation above 1.8 and mean
\* below 3; of two kinds with standard deviation above 1.8 and mean above 3;
\* of four kinds with standard deviation between 1.5 and 1.8
StageHistoryInputs ==
    { <<>>,
      [i \in 1..21 |-> 1],
      [i \in 1..21 |-> IF i % 4 = 0 THEN 1 ELSE IF i % 4 = 1 THEN 3
                       ELSE IF i % 4 = 2 THEN 5 ELSE 7],
      [i \in 1..20 |-> IF i % 4 = 0 THEN 1 ELSE IF i % 4 = 1 THEN 3
                       ELSE IF i % 4 = 2 THEN 5 ELSE 7],
      [i \in 1..21 |-> IF i % 4 = 0 THEN 0 ELSE IF i % 4 = 1 THEN 2
                       ELSE IF i % 4 = 2 THEN 4 ELSE 5],
      [i \in 1..21 |-> IF i % 2 = 0 THEN 1 ELSE 7],
      [i \in 1..21 |-> IF i % 4 = 0 THEN 2 ELSE IF i % 4 = 1 THEN 3
                       ELSE IF i % 4 = 2 THEN 5 ELSE 6] }

ThresholdInputs == {650, 850}

InitClassify ==
    /\ prog = "FN"
    /\ rng = 0
    /\ env = 0
    /\ gh = [r \in Runs |-> GHNoRun]
    /\ cur = Idle
    /\ xs = XSNoSystem
    /\ ca = [history |-> <<>>, paradox_events |-> <<>>, report |-> NoReport]
    /\ \E t \in TensionInputs, a \in PoleInputs, b \in PoleInputs,
          p \in ParadoxScoreInputs, h \in StageHistoryInputs,
          th \in ThresholdInputs :
          fn = [NoCall EXCEPT !.tension = t, !.A = a, !.anti_A = b,
                              !.paradox_score = p, !.history_stages = h,
                              !.aufhebung_threshold = th]

\* both classifiers are called with the drawn arguments on an object whose
\* stage history and threshold are the drawn ones
Classify ==
    /\ prog = "FN"
    /\ ~fn.applied
    /\ fn' = [fn EXCEPT
                !.applied = TRUE,
                !.gh_stage = GHClassify(fn, fn.tension, fn.A, fn.anti_A,
                                        fn.paradox_score),
                !.xs_stage = XSClassify(fn, fn.tension, fn.A, fn.anti_A)]
    /\ UNCHANGED <<prog, rng, env, gh, cur, xs, ca>>

NextClassify == Classify

SpecClassify == InitClassify /\ [][NextClassify]_vars

(***************************************************************************)
(* Properties of the runs.                                                 *)
(***************************************************************************)
\* the objects created so far
MadeRuns == {r \in Runs : gh[r].made}

\* the recorded steps of an object
StepsOf(obj) == 1..Len(obj.history_A)

\* no call of simulate_enhanced_historical_process is in progress and the
\* object has completed one
Simulated(r) == gh[r].made /\ gh[r].simulations >= 1 /\ cur = Idle

\* the per-step results of an object: A, negA, tension, risk index, paradox
\* score, stage, phase
GHResults(run) ==
    <<run.history_A, run.history_anti_A, run.history_tension,
      run.history_XEPTQLRI, run.history_paradox_scores, run.history_stages,
      run.phase_history>>

\* the entries of a list of numpy floats above a cut, in order (nan is above
\* nothing)
Above(s, cut) == SelectSeq(s, LAMBDA x : ~IsNaN(x) /\ x > cut)

\* the XEPTQLRI values of a list of risk events, in order
EventValues(events) == [i \in 1..Len(events) |-> events[i].XEPTQLRI]

\* C1: every recorded step of a XenopoulosGeneticHistoricalSystem has A in
\* [-1.2, 1.2], tension and paradox score in [0, 1] and XEPTQLRI in [0, 3.0];
\* every recorded step of a XenopoulosSystem has A in [-1.5, 1.5], tension in
\* [0, 1] and XEPTQLRI in [0, 3.5].
C1_BoundsInvariant ==
    /\ \A r \in Runs : \A i \in StepsOf(gh[r]) :
          /\ gh[r].history_A[i] >= -1200 /\ gh[r].history_A[i] <= 1200
          /\ gh[r].history_tension[i] >= 0 /\ gh[r].history_tension[i] <= 1000
          /\ gh[r].history_paradox_scores[i] >= 0
          /\ gh[r].history_paradox_scores[i] <= 1000
          /\ ~IsNaN(gh[r].history_XEPTQLRI[i])
          /\ gh[r].history_XEPTQLRI[i] >= 0 /\ gh[r].history_XEPTQLRI[i] <= 3000
    /\ \A i \in StepsOf(xs) :
          /\ xs.history_A[i] >= -1500 /\ xs.history_A[i] <= 1500
          /\ xs.history_tension[i] >= 0 /\ xs.history_tension[i] <= 1000
          /\ ~IsNaN(xs.history_XEPTQLRI[i])
          /\ xs.history_XEPTQLRI[i] >= 0 /\ xs.history_XEPTQLRI[i] <= 3500

ParadoxPremise ==
    Abs(fn.A) > 850 /\ Abs(fn.anti_A) > 850 /\ fn.tension < 400

\* C3: a classifier applied to |A| > 0.85, |negA| > 0.85 and tension < 0.4
\* returns stage 6 (_enhanced_stage_classification and _classify_stage),
\* whatever the stage history and the paradox score are.
C3_ParadoxRule ==
    (fn.applied /\ ParadoxPremise) => (fn.gh_stage = 6 /\ fn.xs_stage = 6)

\* the paradox rule applied over a varied stage history that would otherwise
\* give stage 8, with a paradox score above 0.8
C3_Witness ==
    /\ fn.applied
    /\ ParadoxPremise
    /\ Len(fn.history_stages) > 20
    /\ StdAbove18(LastK(fn.history_stages, 20))
    /\ fn.paradox_score > 800
    /\ fn.gh_stage = 6
    /\ fn.xs_stage = 6

\* the premise of the false-stability rule on the arguments of a classifier call
FalseStabilityPremise ==
    fn.tension < 250 /\ (Abs(fn.A) > 750 \/ Abs(fn.anti_A) > 750)

\* C4: a classifier applied to tension < 0.25 and (|A| > 0.75 or
\* |negA| > 0.75) returns stage 7 unless it returns stage 6, whatever the
\* stage history and the paradox score are.
C4_FalseStabilityRule ==
    (fn.applied /\ FalseStabilityPremise) =>
        /\ fn.gh_stage \in {6, 7}
        /\ fn.xs_stage \in {6, 7}

\* the false-stability rule applied where only one pole is extreme, over a
\* varied stage history that would otherwise give stage 8
C4_Witness ==
    /\ fn.applied
    /\ FalseStabilityPremise
    /\ Abs(fn.A) <= 750
    /\ Len(fn.history_stages) > 20
    /\ StdAbove18(LastK(fn.history_stages, 20))
    /\ fn.gh_stage = 7
    /\ fn.xs_stage = 7

C8_NoDataReport ==
    /\ ~cur.report
    /\ \A r \in Runs :
          gh[r].report.requested_at = 0 => gh[r].report.kind \in {"none", "no data"}
    /\ xs.report.requested_at = 0 => xs.report.kind \in {"none", "no data"}
    /\ ca.report.requested_at = 0 => ca.report.kind \in {"none", "no data"}

StageInputs == {0, 5, 6, 7, 9}

DetectScoreInputs == {0, 900, 901}

\* the paradox log before the call: empty, or holding an earlier event
LogInputs ==
    { <<>>,
      <<[step |-> 0, type |-> "FALSE_STABILITY", A_value |-> 720,
         anti_A_value |-> -100, paradox_score |-> 300, stage |-> 7]>> }

InitDetect ==
    /\ prog = "EV"
    /\ rng = 0
    /\ env = 0
    /\ gh = [r \in Runs |-> GHNoRun]
    /\ cur = Idle
    /\ xs = XSNoSystem
    /\ ca = [history |-> <<>>, paradox_events |-> <<>>, report |-> NoReport]
    /\ \E a \in PoleInputs, b \in PoleInputs, p \in DetectScoreInputs,
          st \in StageInputs, log \in LogInputs :
          fn = [applied |-> FALSE, step |-> Len(log), A |-> a, anti_A |-> b,
                paradox_score |-> p, stage_idx |-> st, before |-> log,
                paradox_events |-> log]

\* self._detect_paradox_events(step, current_A, current_anti_A,
\* paradox_score, stage_idx)
Detect ==
    /\ prog = "EV"
    /\ ~fn.applied
    /\ fn' = [fn EXCEPT
                !.applied = TRUE,
                !.paradox_events =
                    @ \o GHParadoxEvents(fn.step, fn.A, fn.anti_A,
                                         fn.paradox_score, fn.stage_idx)]
    /\ UNCHANGED <<prog, rng, env, gh, cur, xs, ca>>

NextDetect == Detect

SpecDetect == InitDetect /\ [][NextDetect]_vars

\* s is a prefix of t
IsPrefix(s, t) == Len(s) <= Len(t) /\ SubSeq(t, 1, Len(s)) = s

\* the events a call of _detect_paradox_events added to the log
AddedEvents == SubSeq(fn.paradox_events, Len(fn.before) + 1, Len(fn.paradox_events))

\* the number of added events of a type
AddedOfType(type) ==
    Cardinality({i \in 1..Len(AddedEvents) : AddedEvents[i].type = type})

\* C11: a call of _detect_paradox_events keeps the log and adds exactly one
\* SIMULTANEOUS_EXTREMITY event iff |A| > 0.85 and |negA| > 0.85, exactly one
\* FALSE_STABILITY event iff the stage is 7, exactly one META_PARADOX event
\* iff the paradox score is above 0.9, each carrying the step and the values
\* of the call, and nothing else: between 0 and 3 events.
C11_ParadoxEvents ==
    fn.applied =>
        /\ IsPrefix(fn.before, fn.paradox_events)
        /\ AddedOfType("SIMULTANEOUS_EXTREMITY") =
               (IF Abs(fn.A) > 850 /\ Abs(fn.anti_A) > 850 THEN 1 ELSE 0)
        /\ AddedOfType("FALSE_STABILITY") = (IF fn.stage_idx = 7 THEN 1 ELSE 0)
        /\ AddedOfType("META_PARADOX") =
               (IF fn.paradox_score > 900 THEN 1 ELSE 0)
        /\ Len(AddedEvents) = AddedOfType("SIMULTANEOUS_EXTREMITY")
                              + AddedOfType("FALSE_STABILITY")
                              + AddedOfType("META_PARADOX")
        /\ Len(AddedEvents) <= 3
        /\ \A i \in 1..Len(AddedEvents) :
              /\ AddedEvents[i].step = fn.step
              /\ AddedEvents[i].A_value = fn.A
              /\ AddedEvents[i].anti_A_value = fn.anti_A
              /\ AddedEvents[i].paradox_score = fn.paradox_score
              /\ AddedEvents[i].stage = fn.stage_idx

\* a call in which all three conditions hold has added three events to a log
\* that already held one
C11_Witness ==
    /\ fn.applied
    /\ fn.before # <<>>
    /\ Abs(fn.A) > 850 /\ Abs(fn.anti_A) > 850
    /\ fn.stage_idx = 7
    /\ fn.paradox_score > 900
    /\ Len(AddedEvents) = 3

\* the lists of an object of XenopoulosGeneticHistoricalSystem that a step
\* writes: the seven history lists and the two event logs
GHLists(run) == GHResults(run) \o <<run.risk_events, run.paradox_events>>

\* the lists of a XenopoulosSystem that a step writes
XSLists(sys) ==
    <<sys.history_A, sys.history_anti_A, sys.history_tension,
      sys.history_XEPTQLRI, sys.history_stages, sys.risk_events,
      sys.paradox_events>>

\* every list of `after` extends the list of `before` it comes from
Extends(before, after) ==
    \A k \in 1..Len(before) : IsPrefix(before[k], after[k])

\* history list k has grown by exactly one entry
GrownByOne(before, after, k) == Len(after[k]) = Len(before[k]) + 1

RecordInputs ==
    { [A |-> 100, anti_A |-> -80, paradox_score |-> 200, stage |-> 0, XEPTQLRI |-> 100],
      [A |-> 900, anti_A |-> -900, paradox_score |-> 800, stage |-> 6, XEPTQLRI |-> 1500],
      [A |-> 900, anti_A |-> -100, paradox_score |-> 300, stage |-> 7, XEPTQLRI |-> 100],
      [A |-> 850, anti_A |-> -850, paradox_score |-> 600, stage |-> 5, XEPTQLRI |-> 400],
      [A |-> 1200, anti_A |-> -1500, paradox_score |-> 500, stage |-> 9, XEPTQLRI |-> 200],
      [A |-> 0, anti_A |-> 0, paradox_score |-> 300, stage |-> 0, XEPTQLRI |-> NaN] }

\* the last 100 records: `first` copies of one record, then another record
SplitInputs == {0, 35, 45, 65, 85}

\* the records before the last 100
EarlierInputs ==
    { <<>>,
      [i \in 1..40 |-> [A |-> 900, anti_A |-> -900, paradox_score |-> 800,
                        stage |-> 6, XEPTQLRI |-> 1500]],
      [i \in 1..5 |-> [A |-> 100, anti_A |-> -80, paradox_score |-> 200,
                       stage |-> 0, XEPTQLRI |-> 100]] }

\* the number of records of the history the deception index is applied to
LengthInputs == {0, 49, 50, 100}

\* the history lists of an object that recorded the given records
HistoryOf(recs) ==
    [history_A |-> [i \in 1..Len(recs) |-> recs[i].A],
     history_anti_A |-> [i \in 1..Len(recs) |-> recs[i].anti_A],
     history_paradox_scores |-> [i \in 1..Len(recs) |-> recs[i].paradox_score],
     history_stages |-> [i \in 1..Len(recs) |-> recs[i].stage],
     history_XEPTQLRI |-> [i \in 1..Len(recs) |-> recs[i].XEPTQLRI]]

InitDiagnose ==
    /\ prog = "DG"
    /\ rng = 0
    /\ env = 0
    /\ gh = [r \in Runs |-> GHNoRun]
    /\ cur = Idle
    /\ xs = XSNoSystem
    /\ ca = [history |-> <<>>, paradox_events |-> <<>>, report |-> NoReport]
    /\ \E x \in RecordInputs, y \in RecordInputs, n \in SplitInputs,
          e1 \in EarlierInputs, same \in BOOLEAN, k \in LengthInputs :
          fn = [diagnosed |-> FALSE, indexed |-> FALSE,
                first |-> HistoryOf(e1 \o [i \in 1..100 |-> IF i <= n THEN x ELSE y]),
                second |-> HistoryOf([i \in 1..100 |->
                              IF i <= n /\ same THEN x ELSE y]),
                short |-> HistoryOf(LastK([i \in 1..100 |-> IF i <= n THEN x ELSE y], k)),
                first_state |-> "", second_state |-> "", deception |-> 0]

\* self._determine_true_system_state() on two objects
Diagnose ==
    /\ prog = "DG"
    /\ ~fn.diagnosed
    /\ fn' = [fn EXCEPT !.diagnosed = TRUE,
                        !.first_state = GHTrueSystemState(fn.first),
                        !.second_state = GHTrueSystemState(fn.second)]
    /\ UNCHANGED <<prog, rng, env, gh, cur, xs, ca>>

\* self._calculate_stability_deception_index()
DeceptionIndex ==
    /\ prog = "DG"
    /\ ~fn.indexed
    /\ fn' = [fn EXCEPT !.indexed = TRUE,
                        !.deception = GHDeceptionIndex(fn.short)]
    /\ UNCHANGED <<prog, rng, env, gh, cur, xs, ca>>

NextDiagnose == Diagnose \/ DeceptionIndex

SpecDiagnose == InitDiagnose /\ [][NextDiagnose]_vars

\* the last 100 records (A, negA, paradox score, stage, risk index) of a history
Last100(h) ==
    <<LastK(h.history_A, 100), LastK(h.history_anti_A, 100),
      LastK(h.history_paradox_scores, 100), LastK(h.history_stages, 100),
      LastK(h.history_XEPTQLRI, 100)>>

\* C13: two histories of at least 100 records with equal last 100 records
\* get the same label from _determine_true_system_state, whatever the
\* earlier records are.
C13_LastHundredOnly ==
    (/\ fn.diagnosed
     /\ Len(fn.first.history_A) >= 100
     /\ Len(fn.second.history_A) >= 100
     /\ Last100(fn.first) = Last100(fn.second))
    => fn.first_state = fn.second_state

\* two histories that differ before their equal last 100 records, one of them
\* 40 records longer, diagnosed alike with a label decided by the mean risk
C13_Witness ==
    /\ fn.diagnosed
    /\ Last100(fn.first) = Last100(fn.second)
    /\ Len(fn.first.history_A) = 140
    /\ Len(fn.second.history_A) = 100
    /\ fn.first_state = "TRUE_STABILITY"
    /\ fn.second_state = "TRUE_STABILITY"

\* the mean of a non-empty list of magnitudes, 0 for the empty list
MeanAbs(s) == IF s = <<>> THEN 0 ELSE Mean(AbsSeq(s))

\* C14: the deception index is 0 when fewer than 50 steps are recorded; it is
\* non-zero only if the mean risk index of the last 50 steps is below 0.5 and
\* the mean |A| or the mean |negA| of those steps is above 0.7; it lies in
\* [0, 1].
C14_DeceptionIndex ==
    fn.indexed =>
        /\ Len(fn.short.history_XEPTQLRI) < 50 => fn.deception = 0
        /\ fn.deception # 0 =>
              /\ \A i \in 1..50 :
                    ~IsNaN(LastK(fn.short.history_XEPTQLRI, 50)[i])
              /\ SumSeq(LastK(fn.short.history_XEPTQLRI, 50)) < 500 * 50
              /\ \/ MeanAbs(LastK(fn.short.history_A, 50)) > 700
                 \/ MeanAbs(LastK(fn.short.history_anti_A, 50)) > 700
        /\ fn.deception >= 0
        /\ fn.deception <= 1000

\* a history of 50 records with low risk and poles beyond the clamp of A:
\* the index is capped at 1
C14_Witness ==
    /\ fn.indexed
    /\ Len(fn.short.history_A) = 50
    /\ MeanAbs(fn.short.history_anti_A) > 1200
    /\ fn.deception = 1000

\* the last entry of a non-empty list
Last(s) == s[Len(s)]

\* C15: a call of simulate_step appends exactly one entry to each of the five
\* history lists; the appended A is the input clamped to [-1.5, 1.5]; the
\* appended tension is the tension of that A and the appended negation; the
\* returned A, negA, tension, risk index and stage are the appended ones.
C15_SimulateStep ==
    [][(xs.made /\ [xs' EXCEPT !.report = xs.report] # xs) =>
          /\ \A k \in 1..5 : GrownByOne(XSLists(xs), XSLists(xs'), k)
          /\ Last(xs'.history_A) = Clip(xs'.external_A_input, -1500, 1500)
          /\ Last(xs'.history_tension) =
                 XSTension(Last(xs'.history_A), Last(xs'.history_anti_A))
          /\ xs'.returned.A = Last(xs'.history_A)
          /\ xs'.returned.anti_A = Last(xs'.history_anti_A)
          /\ xs'.returned.tension = Last(xs'.history_tension)
          /\ xs'.returned.XEPTQLRI = Last(xs'.history_XEPTQLRI)
          /\ xs'.returned.stage_idx = Last(xs'.history_stages)]_vars

\* a second call whose input lies outside the clamp, after a call with
\* another input
C15_Witness ==
    /\ Len(xs.history_A) >= 2
    /\ xs.external_A_input < -1500
    /\ Last(xs.history_A) = -1500
    /\ xs.history_A[Len(xs.history_A) - 1] = 900
    /\ xs.returned.A = -1500

\* C16: no windowed calculation raises for lack of history: the initial
\* negation of a constructor (memory effect over history_A) and
\* generate_report (windowed XEPTQLRI of the code analyzer) raise no
\* exception at any history length, and a report over fewer than 100
\* records carries the label INSUFFICIENT_DATA.
C16_WindowedDefaults ==
    /\ ca.report.kind \notin {"ZeroDivisionError", "ValueError"}
    /\ \A r \in Runs :
          /\ gh[r].error # "AttributeError"
          /\ (gh[r].report.kind = "report" /\ gh[r].report.total_steps < 100)
             => gh[r].report.true_system_state = "INSUFFICIENT_DATA"

\* the stage of a tension under bands that end at b1, b2, b3, b4 and the
\* threshold
StageOfBands(tension, b1, b2, b3, b4, threshold) ==
    IF tension < b1 THEN 0
    ELSE IF tension < b2 THEN 1
    ELSE IF tension < b3 THEN 2
    ELSE IF tension < b4 THEN 3
    ELSE IF tension < threshold THEN 4
    ELSE 5

\* the stages given by the paradox rules
ParadoxStages == {6, 7, 8, 9}

\* C17 as stated: whenever a classifier returns none of the stages 6 to 9,
\* it returns the stage of the tension under the bands 0.15, 0.30, 0.45, 0.60,
\* aufhebung_threshold (both _enhanced_stage_classification and
\* _classify_stage).
C17_BandsAsStated ==
    fn.applied =>
        /\ fn.gh_stage \notin ParadoxStages =>
               fn.gh_stage = StageOfBands(fn.tension, 150, 300, 450, 600,
                                          fn.aufhebung_threshold)
        /\ fn.xs_stage \notin ParadoxStages =>
               fn.xs_stage = StageOfBands(fn.tension, 150, 300, 450, 600,
                                          fn.aufhebung_threshold)

\* C17: whenever a classifier returns none of the stages 6 to 9, it returns
\* the stage of the tension under fixed bands: 0.15, 0.30, 0.45, 0.60,
\* aufhebung_threshold in _classify_stage and 0.15, 0.35, 0.55, 0.75,
\* aufhebung_threshold in _enhanced_stage_classification.
C17_TensionBands ==
    fn.applied =>
        /\ fn.gh_stage \notin ParadoxStages =>
               fn.gh_stage = StageOfBands(fn.tension, 150, 350, 550, 750,
                                          fn.aufhebung_threshold)
        /\ fn.xs_stage \notin ParadoxStages =>
               fn.xs_stage = StageOfBands(fn.tension, 150, 300, 450, 600,
                                          fn.aufhebung_threshold)

\* a tension of 0.61 under a threshold of 0.65 with no paradox rule firing:
\* stage 3 in one class and stage 4 in the other
C17_Witness ==
    /\ fn.applied
    /\ fn.tension = 610
    /\ fn.aufhebung_threshold = 650
    /\ fn.paradox_score = 800
    /\ fn.gh_stage = 3
    /\ fn.xs_stage = 4

\* the stages drawn for a classifier call, and the last 20 of them
Recent == LastK(fn.history_stages, 20)

\* the permanent-dialectics test as the claim words it
VariedAndHigh == StdAbove18(Recent) /\ SumSeq(Recent) > 3 * 20

\* C18 as stated: a classifier that returns neither stage 6 nor stage 7
\* returns stage 8 exactly when at least 20 stages are recorded and the last 20
\* have standard deviation > 1.8 and mean > 3.
C18_AsStated ==
    fn.applied =>
        /\ fn.gh_stage \notin {6, 7} =>
               (fn.gh_stage = 8 <=> (Len(fn.history_stages) >= 20 /\ VariedAndHigh))
        /\ fn.xs_stage \notin {6, 7} =>
               (fn.xs_stage = 8 <=> (Len(fn.history_stages) >= 20 /\ VariedAndHigh))

\* C18: a classifier that returns neither stage 6 nor stage 7 returns stage 8
\* exactly when more than 20 stages are recorded and the last 20 of them have,
\* in _classify_stage, standard deviation > 1.8 and mean > 3 and, in
\* _enhanced_stage_classification, at least four distinct values and standard
\* deviation > 1.5; the paradox score and the tension play no part.
C18_PermanentDialectics ==
    fn.applied =>
        /\ fn.gh_stage \notin {6, 7} =>
               (fn.gh_stage = 8 <=>
                   /\ Len(fn.history_stages) > 20
                   /\ Cardinality({Recent[i] : i \in 1..20}) >= 4
                   /\ StdAbove15(Recent))
        /\ fn.xs_stage \notin {6, 7} =>
               (fn.xs_stage = 8 <=>
                   (Len(fn.history_stages) > 20 /\ VariedAndHigh))

\* stage 8 from a call whose paradox score and tension satisfy the test of
\* stage 9, over stages of four kinds whose mean is below 3: the other class
\* returns a tension band
C18_Witness ==
    /\ fn.applied
    /\ fn.paradox_score > 800
    /\ fn.tension > 600
    /\ Len(fn.history_stages) > 20
    /\ StdAbove18(Recent)
    /\ SumSeq(Recent) < 3 * 20
    /\ fn.gh_stage = 8
    /\ fn.xs_stage \in {4, 5}

\* the objects of either class that have recorded a first step
Started == {gh[r] : r \in {q \in Runs : gh[q].history_stages # <<>>}}

FirstParadox(obj, pole, limit) ==
    /\ Abs(obj.history_A[1]) > pole
    /\ Abs(obj.history_anti_A[1]) > pole
    /\ obj.history_tension[1] < limit

FirstFalseStability(obj, pole, limit) ==
    /\ obj.history_tension[1] < limit
    /\ (Abs(obj.history_A[1]) > pole \/ Abs(obj.history_anti_A[1]) > pole)

RngStates == 0..(RngMod - 1)

RandnValues == {Randn(s) : s \in RngStates}

\* the record a loop iteration of the call in progress appends, and the
\* record a simulate_step call appends
GHStepTaken == cur.run # 0 /\ Len(gh'[cur.run].history_A) = Len(gh[cur.run].history_A) + 1

XSStepTaken == Len(xs'.history_A) = Len(xs.history_A) + 1

TrendInputs == {-200, 0, 100, 101, 300, 301, 400}

InitRisk ==
    /\ prog = "RI"
    /\ rng = 0
    /\ env = 0
    /\ gh = [r \in Runs |-> GHNoRun]
    /\ cur = Idle
    /\ xs = XSNoSystem
    /\ ca = [history |-> <<>>, paradox_events |-> <<>>, report |-> NoReport]
    /\ \E t \in {0, 500, 1000}, h \in TrendInputs, a \in {0, 900},
          b \in {0, -900}, p \in ParadoxScoreInputs, th \in ThresholdInputs,
          v \in {0, 120}, z \in {RandnTab[1], RandnTab[16]} :
          fn = [applied |-> FALSE, tension |-> t, historical_trend |-> h,
                A |-> a, anti_A |-> b, paradox_score |-> p,
                aufhebung_threshold |-> th, volatility |-> v, randn |-> z,
                history_A |-> <<>>, XEPTQLRI |-> 0]

\* self._calculate_enhanced_XEPTQLRI(tension, historical_trend, current_A,
\* current_anti_A, paradox_score)
RiskIndex ==
    /\ prog = "RI"
    /\ ~fn.applied
    /\ fn' = [fn EXCEPT
                !.applied = TRUE,
                !.XEPTQLRI = GHRiskIndex(fn, fn.tension, fn.historical_trend,
                                         fn.A, fn.anti_A, fn.paradox_score,
                                         fn.randn)]
    /\ UNCHANGED <<prog, rng, env, gh, cur, xs, ca>>

NextRisk == RiskIndex

SpecRisk == InitRisk /\ [][NextRisk]_vars

AuditActions ==
    { [n \in 1..MaxAuditCalls |-> "paradox_detected"],
      [n \in 1..MaxAuditCalls |-> IF n % 2 = 0 THEN "analysis" ELSE "paradox_detected"],
      [n \in 1..MaxAuditCalls |-> IF n % 7 = 0 THEN "paradox_detected" ELSE "analysis"] }

\* _log_audit with the oldest 100 entries kept
AuditLoggedKeepOldest(audit_log, audit_entry) ==
    IF Len(audit_log) + 1 > 100
    THEN SubSeq(Append(audit_log, audit_entry), 1, 100)
    ELSE Append(audit_log, audit_entry)

\* _log_audit: self.audit_log after the call
AuditLogged(audit_log, audit_entry) ==
    IF Len(audit_log) + 1 > 100
    THEN LastK(Append(audit_log, audit_entry), 100)
    ELSE Append(audit_log, audit_entry)

InitAudit ==
    /\ prog = "AL"
    /\ rng = 0
    /\ env = 0
    /\ gh = [r \in Runs |-> GHNoRun]
    /\ cur = Idle
    /\ xs = XSNoSystem
    /\ ca = [history |-> <<>>, paradox_events |-> <<>>, report |-> NoReport]
    /\ \E actions \in AuditActions :
          fn = [actions |-> actions, audit_log |-> <<>>, logged |-> <<>>]

\* self._log_audit(action, details)
LogAudit ==
    /\ prog = "AL"
    /\ Len(fn.logged) < MaxAuditCalls
    /\ \E audit_entry \in {[timestamp |-> Len(fn.logged) + 1,
                            action |-> fn.actions[Len(fn.logged) + 1]]} :
          fn' = [fn EXCEPT !.audit_log = AuditLogged(@, audit_entry),
                           !.logged = Append(@, audit_entry)]
    /\ UNCHANGED <<prog, rng, env, gh, cur, xs, ca>>

NextAudit == LogAudit

SpecAudit == InitAudit /\ [][NextAudit]_vars

\* C23: the audit log holds at most 100 entries, and they are the last
\* min(n, 100) of the n entries logged so far, in the order they were logged.
C23_AuditLogCap ==
    /\ Len(fn.audit_log) <= 100
    /\ Len(fn.audit_log) = Min(Len(fn.logged), 100)
    /\ \A i \in 1..Len(fn.audit_log) :
          fn.audit_log[i] = fn.logged[Len(fn.logged) - Len(fn.audit_log) + i]

\* more than 100 entries were logged: the first one is gone and the newest
\* one is the last of the log
C23_Witness ==
    /\ Len(fn.logged) > 100
    /\ Len(fn.audit_log) = 100
    /\ fn.audit_log[1].timestamp = Len(fn.logged) - 99
    /\ fn.audit_log[100] = fn.logged[Len(fn.logged)]

AllOfLength(lists, n) == \A k \in 1..Len(lists) : Len(lists[k]) = n

C26_NoParadoxStage ==
    /\ xs.paradox_events = <<>>
    /\ \A i \in StepsOf(xs) :
          /\ xs.history_stages[i] # 6
          /\ (Abs(xs.history_A[i]) > 850 /\ Abs(xs.history_anti_A[i]) > 850)
             => xs.history_tension[i] = 1000

\* a record whose poles both exceed 0.85, one of them clamped at -1.5, and
\* another whose poles both lie between 0.85 and 1
C26_Witness ==
    /\ \E i \in StepsOf(xs) :
          /\ xs.history_A[i] = -1500
          /\ xs.history_anti_A[i] > 850
          /\ xs.history_tension[i] = 1000
    /\ \E i \in StepsOf(xs) :
          /\ xs.history_A[i] = 900
          /\ xs.history_anti_A[i] < -850
          /\ xs.history_anti_A[i] > -1000

(***************************************************************************)
(* Source lines 360-374 of simulate_enhanced_historical_process on their   *)
(* own: paradox score, stage and paradox events of one step, for a clamped *)
(* A, a negation and a tension drawn from the sets below, on an object     *)
(* with no history or with 11 records of extreme poles.                    *)
(***************************************************************************)
InitScore ==
    /\ prog = "PS"
    /\ rng = 0
    /\ env = 0
    /\ gh = [r \in Runs |-> GHNoRun]
    /\ cur = Idle
    /\ xs = XSNoSystem
    /\ ca = [history |-> <<>>, paradox_events |-> <<>>, report |-> NoReport]
    /\ \E a \in {-1200, -1176, -900, 0, 701, 1100, 1175, 1176, 1200},
          b \in {-2000, -1300, -1200, -1176, -701, 0, 900, 1175, 1200},
          t \in {0, 299, 300, 399, 601, 1000},
          h \in {0, 11}, th \in ThresholdInputs :
          fn = [applied |-> FALSE, A |-> a, anti_A |-> b, tension |-> t,
                aufhebung_threshold |-> th,
                history_A |-> [i \in 1..h |-> 1100],
                history_anti_A |-> [i \in 1..h |-> -1000],
                history_stages |-> [i \in 1..h |-> 5],
                paradox_score |-> 0, stage_idx |-> 0, paradox_events |-> <<>>]

\* paradox_score, stage_idx and the paradox events of step len(history_A)
ScoreStep ==
    /\ prog = "PS"
    /\ ~fn.applied
    /\ \E score \in {GHParadoxScore(fn, fn.A, fn.anti_A, fn.tension)} :
       \E stage \in {GHClassify(fn, fn.tension, fn.A, fn.anti_A, score)} :
          fn' = [fn EXCEPT
                   !.applied = TRUE,
                   !.paradox_score = score,
                   !.stage_idx = stage,
                   !.paradox_events =
                       GHParadoxEvents(Len(fn.history_A), fn.A, fn.anti_A,
                                       score, stage)]
    /\ UNCHANGED <<prog, rng, env, gh, cur, xs, ca>>

NextScore == ScoreStep

SpecScore == InitScore /\ [][NextScore]_vars

\* C27: a step records a META_PARADOX event only with a tension below 0.3
\* and a stage 6 or 7.
C27_MetaParadox ==
    \A k \in 1..Len(fn.paradox_events) :
        fn.paradox_events[k].type = "META_PARADOX" =>
            /\ fn.tension < 300
            /\ fn.paradox_events[k].stage \in {6, 7}
            /\ Min(Abs(fn.A), Abs(fn.anti_A)) > 700

\* a META_PARADOX event: both poles near the clamp, persistent extremes, low
\* tension
C27_Witness ==
    /\ fn.applied
    /\ \E k \in 1..Len(fn.paradox_events) :
          /\ fn.paradox_events[k].type = "META_PARADOX"
          /\ fn.paradox_events[k].paradox_score > 900
          /\ fn.paradox_events[k].stage = 6
    /\ fn.tension = 299

(***************************************************************************)
(* The variants whose tension is the plain product |A * negA|:             *)
(* financial_analysis.XenopoulosFinancialAnalyzer (program "FA", the       *)
(* object is fn) and ai_model_check.XenopoulosCodeAnalyzer (program "CA",  *)
(* the object is ca).                                                      *)
(***************************************************************************)
\* _detect_paradoxical_transcendence with `or` between the two poles
FAParadoxicalEitherPole(market_confidence, risk_perception) ==
    /\ (Abs(market_confidence) > 850 \/ Abs(risk_perception) > 850)
    /\ Abs(Mul(market_confidence, risk_perception)) < 250

\* _detect_paradoxical_transcendence
FAParadoxical(market_confidence, risk_perception) ==
    /\ (Abs(market_confidence) > 850 /\ Abs(risk_perception) > 850)
    /\ Abs(Mul(market_confidence, risk_perception)) < 250

\* _calculate_paradox_factor
FAParadoxFactor(history) ==
    IF Len(history) < 5 THEN 500
    ELSE LET recent == LastK(history, 5)
             extreme_confidence ==
                 200 * Cardinality({i \in 1..5 : Abs(recent[i].confidence) > 800})
             extreme_risk ==
                 200 * Cardinality({i \in 1..5 : Abs(recent[i].risk) > 800})
         IN  Mul(Mul(extreme_confidence, extreme_risk), 1500)

\* update_market_state, given price_change / 0.1, (volume - 1e6) / 5e5 and
\* volatility / 0.05: the analyzer after the call
FAUpdated(fa, change, volume, volatility) ==
    LET norm_change == Tanh(change)
        norm_volume == Tanh(volume)
        norm_vol == Tanh(volatility)
        confidence_change ==
            Mul(700, norm_change) + Mul(200, norm_volume) - Mul(100, norm_vol)
        risk_change ==
            Mul(-600, norm_change) + Mul(300, norm_vol) - Mul(100, norm_volume)
        market_confidence == Tanh(fa.market_confidence + confidence_change)
        risk_perception == Tanh(fa.risk_perception + risk_change)
        tension == Abs(Mul(market_confidence, risk_perception))
        xeptqlri ==
            Quot(Mul(Mul(tension, 1000 + Abs(confidence_change)),
                     FAParadoxFactor(fa.history)) * 1000, 650)
        state == [confidence |-> market_confidence, risk |-> risk_perception,
                  tension |-> tension, xeptqlri |-> xeptqlri]
    IN  [market_confidence |-> market_confidence,
         risk_perception |-> risk_perception,
         history |-> Append(fa.history, state),
         paradox_alerts |->
             IF FAParadoxical(market_confidence, risk_perception)
             THEN Append(fa.paradox_alerts,
                         [confidence |-> market_confidence,
                          risk |-> risk_perception, xeptqlri |-> xeptqlri])
             ELSE fa.paradox_alerts]

\* XenopoulosFinancialAnalyzer(initial_confidence), or XenopoulosCodeAnalyzer()
InitPlainProduct ==
    /\ prog \in {"FA", "CA"}
    /\ rng = 0
    /\ env = 0
    /\ gh = [r \in Runs |-> GHNoRun]
    /\ cur = Idle
    /\ xs = XSNoSystem
    /\ ca = [history |-> <<>>, paradox_events |-> <<>>, report |-> NoReport]
    /\ \E initial_confidence \in {500, 950} :
          fn = [market_confidence |-> initial_confidence,
                risk_perception |-> Mul(-initial_confidence, 800),
                history |-> <<>>, paradox_alerts |-> <<>>]

\* analyzer.update_market_state(price_change, volume, volatility)
UpdateMarketState(change, volume, volatility) ==
    /\ prog = "FA"
    /\ Len(fn.history) < MaxMarketSteps
    /\ fn' = FAUpdated(fn, change, volume, volatility)
    /\ UNCHANGED <<prog, rng, env, gh, cur, xs, ca>>

NextPlainProduct ==
    \/ \E change \in {-3000, 3000}, volatility \in {0, 4000} :
           UpdateMarketState(change, 0, volatility)
    \/ \E result \in CAResults : CAAnalyze(result)

SpecPlainProduct == InitPlainProduct /\ [][NextPlainProduct]_vars

\* C28: paradox_alerts of the financial analyzer and paradox_events of the
\* code analyzer are empty, and no recorded state or analysis meets the
\* paradoxical-transcendence condition of its class.
C28_NoPlainProductParadox ==
    /\ prog = "FA" =>
          /\ fn.paradox_alerts = <<>>
          /\ \A i \in 1..Len(fn.history) :
                ~(/\ Abs(fn.history[i].confidence) > 850
                  /\ Abs(fn.history[i].risk) > 850
                  /\ fn.history[i].tension < 250)
    /\ ca.paradox_events = <<>>
    /\ \A i \in 1..Len(ca.history) : ~ca.history[i].is_paradoxical

\* the financial analyzer with a state whose poles both exceed 0.85
C28_Witness ==
    /\ prog = "FA"
    /\ \E i \in 1..Len(fn.history) :
          /\ Abs(fn.history[i].confidence) > 850
          /\ Abs(fn.history[i].risk) > 850
          /\ fn.history[i].tension > 700
    /\ Len(fn.history) >= 5

\* the code analyzer with an analysis whose poles both exceed 0.8
C28_WitnessCode ==
    \E i \in 1..Len(ca.history) :
        Abs(ca.history[i].A) > 800 /\ Abs(ca.history[i].not_A) > 800

(***************************************************************************)
(* The distributions of a report.                                          *)
(***************************************************************************)
\* the counts of a distribution over the keys 0..last, added up
SumCounts(counts, last) == SumSeq([i \in 1..(last + 1) |-> counts[i - 1]])

\* the four risk-level counts added up
SumRiskLevels(risk_levels) ==
    risk_levels.low + risk_levels.medium + risk_levels.high + risk_levels.extreme

\* the distributions of the report of object r add up to its total_steps
GHPartitions(r) ==
    LET report == gh[r].report
    IN  /\ SumCounts(report.distribution.stages, 9) = report.total_steps
        /\ SumCounts(report.distribution.phases, 6) = report.total_steps
        /\ SumRiskLevels(report.distribution.risk_levels) = report.total_steps

C29_PartitionPositiveThreshold ==
    /\ \A r \in Runs :
          (gh[r].report.kind = "report" /\ gh[r].aufhebung_threshold > 0)
          => GHPartitions(r)
    /\ xs.report.kind = "report"
       => SumCounts(xs.report.stage_counts, 9) = xs.report.total_steps

\* a report of a twice simulated object whose distributions are partitions
C29_WitnessPositiveThreshold ==
    \E r \in Runs :
        /\ gh[r].report.kind = "report"
        /\ gh[r].aufhebung_threshold > 0
        /\ gh[r].simulations = 2
        /\ gh[r].report.total_steps = 2 * gh[r].horizon
        /\ gh[r].report.total_steps > 0
        /\ GHPartitions(r)

(***************************************************************************)
(* reset_system.                                                           *)
(***************************************************************************)
\* the fields of an object that its constructor alone assigns
GHConfiguration(run) ==
    <<run.initial_state_A, run.A, run.anti_A, run.horizon,
      run.aufhebung_threshold, run.volatility, run.system_name, run.system_id>>

\* the events of a log added by the step
NewEvents(before, after) == SubSeq(after, Len(before) + 1, Len(after))

\* a call of reset_system on object r that had something to empty
ResetTaken(r) == Len(gh'[r].history_A) < Len(gh[r].history_A)

\* a step of a simulation of object r that began on an empty history after an
\* earlier simulation had ended
ResimulationStep(r) ==
    /\ cur.run = r
    /\ gh[r].simulations >= 1
    /\ Len(gh[r].history_A) = cur.step

====
